---- MODULE Spec2Model ----
(***************************************************************************)
(* A model of gearworks-http (src/index.ts): the BaseService request       *)
(* pipeline (buildHeaders, sendRequest, sendFiles, completeRequest), the   *)
(* ApiError type and the default parseErrorResponse.                       *)
(*                                                                         *)
(* JavaScript values are tagged records [t |-> <typeof-like tag>, v |-> _].*)
(* A JavaScript string is a sequence of lexemes (TLA+ strings): JSON text  *)
(* is the sequence of its tokens, and a string literal inside JSON text is *)
(* the lexemes between two quote tokens. Whitespace and escapes are not    *)
(* modelled; the strings of the bounded inputs contain no quote.           *)
(***************************************************************************)
EXTENDS Integers, Sequences, FiniteSets, TLC

VARIABLES
    baseUrl,     \* this.baseUrl: the base URL given to the constructor
    headers,     \* this.headers: the default header map given to the constructor
    overridden,  \* TRUE iff the client is a subclass that overrides parseErrorResponse
    calls,       \* per call id: the position and locals of one sendRequest/sendFiles call
    pBody,       \* parseErrorResponse checked as a function: its body argument
    pResponse,   \* ... its axiosResponse argument
    pResult,     \* ... the ApiError returned for (pBody, pResponse), or NotCalled
    pStringResult, \* ... the ApiError returned for (JSON.stringify(pBody), pResponse), or NotCalled
    jPaths,      \* joinUriPaths checked as a function: its arguments
    jResult,     \* ... joinUriPaths(...jPaths), or NotCalled
    jAgain       \* ... joinUriPaths(jResult), or NotCalled

vars == <<baseUrl, headers, overridden, calls, pBody, pResponse, pResult,
          pStringResult, jPaths, jResult, jAgain>>

----------------------------------------------------------------------------
(* Bounds of the model *)

\* the number of concurrent calls on the one client instance
NumCalls == 2
\* the longest `errors` array of a details entry in the bounded error bodies
MaxErrors == 2
\* the longest `details` array in the bounded error bodies
MaxEntries == 2
\* the longest of the first two segments given to joinUriPaths, in atoms
MaxSegmentLen == 2

----------------------------------------------------------------------------
(* JavaScript values *)

Undefined == [t |-> "undefined", v |-> <<>>]
Null == [t |-> "null", v |-> <<>>]
Str(s) == [t |-> "string", v |-> s]
Num(n) == [t |-> "number", v |-> n]
Bool(b) == [t |-> "boolean", v |-> b]
Arr(s) == [t |-> "array", v |-> s]
Obj(f) == [t |-> "object", v |-> f]
EmptyObject == Obj([k \in {} |-> Undefined])

\* ToBoolean, as `if (body)`, `!!x` and `a && b` apply it
Truthy(x) ==
    CASE x.t = "undefined" -> FALSE
      [] x.t = "null" -> FALSE
      [] x.t = "string" -> x.v # <<>>
      [] x.t = "number" -> x.v # 0
      [] x.t = "boolean" -> x.v
      [] OTHER -> TRUE

\* Array.isArray
IsArray(x) == x.t = "array"

\* x[k] for a value x that is neither null nor undefined (those throw a TypeError)
GetProp(x, k) ==
    IF x.t = "object" /\ k \in DOMAIN x.v THEN x.v[k] ELSE Undefined

Digits == <<"0", "1", "2", "3", "4", "5", "6", "7", "8", "9">>
NumLex(n) == Digits[n + 1]
LexNum(l) == CHOOSE n \in 0..9 : Digits[n + 1] = l
IsNumLex(l) == \E n \in 0..9 : Digits[n + 1] = l

RECURSIVE JoinArray(_, _)
\* Array.prototype.join: the element's string, the empty string for null and undefined
JoinItem(x) ==
    CASE x.t = "string" -> x.v
      [] x.t = "number" -> <<NumLex(x.v)>>
      [] x.t = "boolean" -> IF x.v THEN <<"true">> ELSE <<"false">>
      [] x.t = "array" -> JoinArray(x.v, <<",">>)
      [] x.t = "object" -> <<"[object Object]">>
      [] OTHER -> <<>>
JoinArray(s, sep) ==
    IF s = <<>> THEN <<>>
    ELSE IF Len(s) = 1 THEN JoinItem(s[1])
    ELSE JoinItem(s[1]) \o sep \o JoinArray(Tail(s), sep)

----------------------------------------------------------------------------
(* JSON.stringify and JSON.parse on token sequences *)

RECURSIVE SetToSeq(_)
SetToSeq(S) ==
    IF S = {} THEN <<>>
    ELSE LET x == CHOOSE y \in S : TRUE IN <<x>> \o SetToSeq(S \ {x})

RECURSIVE Stringify(_), StringifyElements(_), StringifyMembers(_, _)
\* JSON.stringify(x) for a JSON-representable x
Stringify(x) ==
    CASE x.t = "string" -> <<"\"">> \o x.v \o <<"\"">>
      [] x.t = "number" -> <<NumLex(x.v)>>
      [] x.t = "boolean" -> IF x.v THEN <<"true">> ELSE <<"false">>
      [] x.t = "array" -> <<"[">> \o StringifyElements(x.v) \o <<"]">>
      [] x.t = "object" ->
            <<"{">>
            \o StringifyMembers(x.v,
                   SetToSeq({k \in DOMAIN x.v : x.v[k] # Undefined}))
            \o <<"}">>
      [] OTHER -> <<"null">>
StringifyElements(s) ==
    IF s = <<>> THEN <<>>
    ELSE IF Len(s) = 1 THEN Stringify(s[1])
    ELSE Stringify(s[1]) \o <<",">> \o StringifyElements(Tail(s))
StringifyMembers(f, keys) ==
    IF keys = <<>> THEN <<>>
    ELSE LET one == <<"\"", keys[1], "\"", ":">> \o Stringify(f[keys[1]])
         IN IF Len(keys) = 1 THEN one
            ELSE one \o <<",">> \o StringifyMembers(f, Tail(keys))

ParseFail == [ok |-> FALSE, val |-> Undefined, rest |-> <<>>]
ParseOk(x, r) == [ok |-> TRUE, val |-> x, rest |-> r]

\* the string literal whose opening quote was just consumed
ParseString(ts) ==
    IF \E i \in 1..Len(ts) : ts[i] = "\""
    THEN LET i == CHOOSE j \in 1..Len(ts) :
                      ts[j] = "\"" /\ \A k \in 1..(j - 1) : ts[k] # "\""
         IN ParseOk(Str(SubSeq(ts, 1, i - 1)), SubSeq(ts, i + 1, Len(ts)))
    ELSE ParseFail

RECURSIVE ParseValue(_), ParseElements(_, _), ParseMembers(_, _)
ParseValue(ts) ==
    IF ts = <<>> THEN ParseFail
    ELSE LET h == Head(ts)
             r == Tail(ts)
         IN CASE h = "null" -> ParseOk(Null, r)
              [] h = "true" -> ParseOk(Bool(TRUE), r)
              [] h = "false" -> ParseOk(Bool(FALSE), r)
              [] IsNumLex(h) -> ParseOk(Num(LexNum(h)), r)
              [] h = "\"" -> ParseString(r)
              [] h = "[" ->
                    IF r # <<>> /\ Head(r) = "]" THEN ParseOk(Arr(<<>>), Tail(r))
                    ELSE ParseElements(r, <<>>)
              [] h = "{" ->
                    IF r # <<>> /\ Head(r) = "}" THEN ParseOk(EmptyObject, Tail(r))
                    ELSE ParseMembers(r, EmptyObject.v)
              [] OTHER -> ParseFail
ParseElements(ts, acc) ==
    LET e == ParseValue(ts)
    IN IF ~e.ok \/ e.rest = <<>> THEN ParseFail
       ELSE IF Head(e.rest) = "," THEN ParseElements(Tail(e.rest), Append(acc, e.val))
       ELSE IF Head(e.rest) = "]" THEN ParseOk(Arr(Append(acc, e.val)), Tail(e.rest))
       ELSE ParseFail
ParseMembers(ts, acc) ==
    IF ts = <<>> \/ Head(ts) # "\"" THEN ParseFail
    ELSE LET k == ParseString(Tail(ts))
         IN IF ~k.ok \/ Len(k.val.v) # 1 \/ k.rest = <<>> \/ Head(k.rest) # ":"
            THEN ParseFail
            ELSE LET e == ParseValue(Tail(k.rest))
                     key == k.val.v[1]
                     f == [x \in DOMAIN acc \cup {key} |->
                              IF x = key THEN e.val ELSE acc[x]]
                 IN IF ~e.ok \/ e.rest = <<>> THEN ParseFail
                    ELSE IF Head(e.rest) = "," THEN ParseMembers(Tail(e.rest), f)
                    ELSE IF Head(e.rest) = "}" THEN ParseOk(Obj(f), Tail(e.rest))
                    ELSE ParseFail

\* JSON.parse(text): ok = FALSE stands for the SyntaxError it throws
JSONParse(text) ==
    LET r == ParseValue(text)
    IN IF r.ok /\ r.rest = <<>> THEN r ELSE ParseFail

----------------------------------------------------------------------------
(* ApiError, isOkay and the default parseErrorResponse *)

DefaultMessage ==
    Str(<<"Something went wrong and your request could not be completed.">>)

\* an ApiError whose unauthorized flag is never set
ApiError_NeverUnauthorized(status, status_text, message) ==
    [status |-> status,
     status_text |-> status_text,
     message |-> IF message = Undefined THEN DefaultMessage ELSE message,
     unauthorized |-> FALSE,
     details |-> Undefined]

\* new ApiError(status, status_text, message): an undefined message takes the default
ApiError(status, status_text, message) ==
    [status |-> status,
     status_text |-> status_text,
     message |-> IF message = Undefined THEN DefaultMessage ELSE message,
     unauthorized |-> (status = 401),
     details |-> Undefined]

\* an AxiosResponse
Response(status, statusText, data) ==
    [t |-> "response",
     v |-> [status |-> status, statusText |-> statusText, data |-> data]]

\* isOkay with the upper edge included
isOkay_UpTo300(response) ==
    Truthy(response) /\ response.v.status >= 200 /\ response.v.status <= 300

\* isOkay(response)
isOkay(response) ==
    Truthy(response) /\ response.v.status >= 200 /\ response.v.status < 300

\* e.errors.join(", ") throws a TypeError: e is null or undefined, or e.errors
\* has no join method
EntryThrows(e) ==
    e.t \in {"null", "undefined"} \/ ~IsArray(GetProp(e, "errors"))

\* response.details.map(e => e.errors.join(", ")).join(", ")
DetailsMessage(details) ==
    Str(JoinArray([i \in 1..Len(details.v) |->
                      Str(JoinArray(GetProp(details.v[i], "errors").v, <<", ">>))],
                  <<", ">>))

\* TryBlock with the typeof check lost: a string body is read as it is, unparsed
TryBlock_NoJsonParse(body) ==
    LET threw == /\ IsArray(GetProp(body, "details"))
                 /\ \E i \in 1..Len(GetProp(body, "details").v) :
                        EntryThrows(GetProp(body, "details").v[i])
    IN IF threw
       THEN [threw |-> TRUE, message |-> Undefined, details |-> Undefined]
       ELSE [threw |-> FALSE,
             message |-> IF IsArray(GetProp(body, "details"))
                         THEN DetailsMessage(GetProp(body, "details"))
                         ELSE GetProp(body, "message"),
             details |-> GetProp(body, "details")]

\* TryBlock with the branches of the conditional swapped in priority: a
\* `message` field wins over the details
TryBlock_MessageFirst(body) ==
    LET parsed == IF body.t = "string" THEN JSONParse(body.v)
                  ELSE ParseOk(body, <<>>)
        response == parsed.val
        threw == \/ ~parsed.ok
                 \/ response.t \in {"null", "undefined"}
                 \/ /\ IsArray(GetProp(response, "details"))
                    /\ \E i \in 1..Len(GetProp(response, "details").v) :
                           EntryThrows(GetProp(response, "details").v[i])
    IN IF threw
       THEN [threw |-> TRUE, message |-> Undefined, details |-> Undefined]
       ELSE [threw |-> FALSE,
             message |-> IF GetProp(response, "message") # Undefined
                         THEN GetProp(response, "message")
                         ELSE IF IsArray(GetProp(response, "details"))
                         THEN DetailsMessage(GetProp(response, "details"))
                         ELSE Undefined,
             details |-> GetProp(response, "details")]

\* The try block for a truthy body: threw = TRUE when JSON.parse or a property
\* access threw before the two assignments; otherwise the values assigned to
\* error.message and error.details.
TryBlock(body) ==
    LET parsed == IF body.t = "string" THEN JSONParse(body.v)
                  ELSE ParseOk(body, <<>>)
        response == parsed.val
        threw == \/ ~parsed.ok
                 \/ response.t \in {"null", "undefined"}
                 \/ /\ IsArray(GetProp(response, "details"))
                    /\ \E i \in 1..Len(GetProp(response, "details").v) :
                           EntryThrows(GetProp(response, "details").v[i])
    IN IF threw
       THEN [threw |-> TRUE, message |-> Undefined, details |-> Undefined]
       ELSE [threw |-> FALSE,
             message |-> IF IsArray(GetProp(response, "details"))
                         THEN DetailsMessage(GetProp(response, "details"))
                         ELSE GetProp(response, "message"),
             details |-> GetProp(response, "details")]

\* ParseOutcome reporting a network failure whenever the body cannot be read
ParseOutcome_FallbackOnThrow(body, axiosResponse) ==
    IF Truthy(axiosResponse) /\ ~(Truthy(body) /\ TryBlock(body).threw)
    THEN LET error == ApiError(axiosResponse.v.status, axiosResponse.v.statusText,
                               Undefined)
         IN IF Truthy(body)
            THEN [raised |-> FALSE,
                  error |-> [error EXCEPT !.message = TryBlock(body).message,
                                          !.details = TryBlock(body).details]]
            ELSE [raised |-> FALSE, error |-> error]
    ELSE [raised |-> FALSE,
          error |-> ApiError(503, "Service Unavailable", Undefined)]

\* ParseOutcome without the try/catch: what the block throws leaves the function
ParseOutcome_NoCatch(body, axiosResponse) ==
    IF Truthy(axiosResponse)
    THEN LET error == ApiError(axiosResponse.v.status, axiosResponse.v.statusText,
                               Undefined)
         IN IF Truthy(body)
            THEN [raised |-> TryBlock(body).threw,
                  error |-> [error EXCEPT !.message = TryBlock(body).message,
                                          !.details = TryBlock(body).details]]
            ELSE [raised |-> FALSE, error |-> error]
    ELSE [raised |-> FALSE,
          error |-> ApiError(503, "Service Unavailable", Undefined)]

\* BaseService.parseErrorResponse(body, axiosResponse) as a call: raised = TRUE
\* when an exception leaves the function, error = the ApiError it returns.
\* Every expression of the body that can throw is inside the try block, whose
\* catch only logs.
ParseOutcome(body, axiosResponse) ==
    IF Truthy(axiosResponse)
    THEN LET error == ApiError(axiosResponse.v.status, axiosResponse.v.statusText,
                               Undefined)
         IN IF Truthy(body) /\ ~TryBlock(body).threw
            THEN [raised |-> FALSE,
                  error |-> [error EXCEPT !.message = TryBlock(body).message,
                                          !.details = TryBlock(body).details]]
            ELSE [raised |-> FALSE, error |-> error]
    ELSE [raised |-> FALSE,
          error |-> ApiError(503, "Service Unavailable", Undefined)]

\* inspect("Could not read response's error JSON.", body) is called
ParseLogs(body, axiosResponse) ==
    Truthy(axiosResponse) /\ Truthy(body) /\ TryBlock(body).threw

----------------------------------------------------------------------------
(* parseErrorResponse as a function: bounded arguments *)

SeqsUpTo(S, n) == UNION {[1..k -> S] : k \in 0..n}

ErrorStrings == {Str(<<"bad">>), Str(<<"worse">>)}
ErrorsArrays == {Arr(s) : s \in SeqsUpTo(ErrorStrings, MaxErrors)}
\* {key, errors} entries, and one entry that lacks `errors`
WellFormedEntries == {Obj([key |-> Str(<<"f">>), errors |-> a]) : a \in ErrorsArrays}
Entries == WellFormedEntries \cup {Obj([key |-> Str(<<"f">>)])}
DetailsValues ==
    {Arr(s) : s \in SeqsUpTo(Entries, MaxEntries)}
    \cup {Str(<<"oops">>), Null, Arr(<<Null>>),
          Arr(<<Obj([key |-> Str(<<"f">>), errors |-> Str(<<"bad">>)])>>)}

\* an object of the fields given a value other than undefined
MkObj(m, d, e) ==
    LET all == [message |-> m, details |-> d, error |-> e]
    IN Obj([k \in {x \in DOMAIN all : all[x] # Undefined} |-> all[k]])

ObjectBodies ==
    {MkObj(m, d, e) : m \in {Undefined, Str(<<"X">>)},
                      d \in {Undefined} \cup DetailsValues,
                      e \in {Undefined, Str(<<"x">>)}}

\* absent, falsy, non-JSON text, JSON text of a non-object, other values
OtherBodies ==
    {Undefined, Null, Str(<<>>), Str(<<"<html>">>), Str(<<"null">>), Str(<<"5">>),
     Str(<<"{">>), Str(<<"\"", "plain", "\"">>), Num(0), Num(5), Bool(FALSE),
     Bool(TRUE), Arr(<<>>)}

ErrorBodies == ObjectBodies \cup OtherBodies

ParseResponses ==
    {Undefined, Response(401, "Unauthorized", Undefined),
     Response(422, "Bad Data", Undefined)}

NotCalled == [t |-> "notcalled", v |-> <<>>]

\* the variables of joinUriPaths checked as a function, unused elsewhere
JoinIdle ==
    /\ jPaths = <<>>
    /\ jResult = NotCalled
    /\ jAgain = NotCalled

\* the executor's variables, unused while a function is checked alone
ExecutorIdle ==
    /\ baseUrl = <<>>
    /\ headers = <<>>
    /\ overridden = FALSE
    /\ calls = <<>>

InitParse ==
    /\ ExecutorIdle
    /\ JoinIdle
    /\ pBody \in ErrorBodies
    /\ pResponse \in ParseResponses
    /\ pResult = NotCalled
    /\ pStringResult = NotCalled

\* parseErrorResponse(body, response), as test ParsesObjectError calls it
CallParse ==
    /\ pResult = NotCalled
    /\ pResult' = ParseOutcome(pBody, pResponse)
    /\ UNCHANGED <<baseUrl, headers, overridden, calls, pBody, pResponse, pStringResult,
                 jPaths, jResult, jAgain>>

\* parseErrorResponse(JSON.stringify(body), response), as test ParsesStringError calls it
CallParseString ==
    /\ pStringResult = NotCalled
    /\ pBody.t = "object"
    /\ pStringResult' = ParseOutcome(Str(Stringify(pBody)), pResponse)
    /\ UNCHANGED <<baseUrl, headers, overridden, calls, pBody, pResponse, pResult,
                 jPaths, jResult, jAgain>>

NextParse == CallParse \/ CallParseString

SpecParse == InitParse /\ [][NextParse]_vars

----------------------------------------------------------------------------
(* joinUriPaths. A path is a sequence of atoms: an atom is one of the       *)
(* characters the regular expressions of joinUriPaths and url-join single  *)
(* out, or a word, a non-empty run of \w characters kept in one piece. The *)
(* bounded segments never split "json" over two atoms.                     *)

Specials == {"/", ".", ":", "?", "&", "#", "!", " "}

\* \w+ : a run of word characters
IsWord(a) == a \notin Specials
\* the atom matches /json/i
IsJson(a) == a \in {"json", "JSON"}

\* s from its i-th atom on
From(s, i) == SubSeq(s, i, Len(s))

RECURSIVE DropSlashes(_)
\* s without its leading run of slashes
DropSlashes(s) ==
    IF s # <<>> /\ Head(s) = "/" THEN DropSlashes(Tail(s)) ELSE s

RECURSIVE ArrayJoinSlash(_)
\* url-join: [].slice.call(arguments, 0).join('/')
ArrayJoinSlash(paths) ==
    IF paths = <<>> THEN <<>>
    ELSE IF Len(paths) = 1 THEN paths[1]
    ELSE paths[1] \o <<"/">> \o ArrayJoinSlash(Tail(paths))

RECURSIVE ProtocolSlashes(_)
\* url-join normalize: str.replace(/:\//g, '://')
ProtocolSlashes(s) ==
    IF s = <<>> THEN <<>>
    ELSE IF Len(s) >= 2 /\ s[1] = ":" /\ s[2] = "/"
         THEN <<":", "/", "/">> \o ProtocolSlashes(From(s, 3))
         ELSE <<s[1]>> \o ProtocolSlashes(Tail(s))

RECURSIVE CollapseSlashes(_)
\* url-join normalize: str.replace(/([^:\s])\/+/g, '$1/')
CollapseSlashes(s) ==
    IF s = <<>> THEN <<>>
    ELSE IF Len(s) >= 2 /\ s[1] \notin {":", " "} /\ s[2] = "/"
         THEN <<s[1], "/">> \o CollapseSlashes(DropSlashes(Tail(s)))
         ELSE <<s[1]>> \o CollapseSlashes(Tail(s))

RECURSIVE QuerySlashes(_)
\* url-join normalize: str.replace(/\/(\?|&|#[^!])/g, '$1')
QuerySlashes(s) ==
    IF s = <<>> THEN <<>>
    ELSE IF Len(s) >= 2 /\ s[1] = "/" /\ s[2] \in {"?", "&"}
         THEN <<s[2]>> \o QuerySlashes(From(s, 3))
    ELSE IF Len(s) >= 3 /\ s[1] = "/" /\ s[2] = "#" /\ s[3] # "!"
         THEN <<s[2], s[3]>> \o QuerySlashes(From(s, 4))
    ELSE <<s[1]>> \o QuerySlashes(Tail(s))

\* url-join normalize: str.replace(/(\?.+)\?/g, '$1&'): from the first "?",
\* .+ runs to the last "?" at least two places on, which becomes "&"
QueryAmpersand(s) ==
    LET Q == {i \in 1..Len(s) : s[i] = "?"}
    IN IF Q = {} THEN s
       ELSE LET first == CHOOSE i \in Q : \A j \in Q : i <= j
                last == CHOOSE i \in Q : \A j \in Q : j <= i
            IN IF last >= first + 2 THEN [s EXCEPT ![last] = "&"] ELSE s

\* joinPaths(...paths): url-join ^2.0.2
joinPaths(paths) ==
    QueryAmpersand(QuerySlashes(CollapseSlashes(ProtocolSlashes(
        ArrayJoinSlash(paths)))))

RECURSIVE ReplaceSlashDotJson(_)
\* .replace(/\/\.json/ig, ".json")
ReplaceSlashDotJson(s) ==
    IF s = <<>> THEN <<>>
    ELSE IF Len(s) >= 3 /\ s[1] = "/" /\ s[2] = "." /\ IsJson(s[3])
         THEN <<".", "json">> \o ReplaceSlashDotJson(From(s, 4))
         ELSE <<s[1]>> \o ReplaceSlashDotJson(Tail(s))

\* joinUriPaths that leaves leading slashes alone
ReplaceLeadingSlashes_Keep(s) == s

\* path.replace(/^\/{2,}/ig, "/")
ReplaceLeadingSlashes(s) ==
    IF Len(s) >= 2 /\ s[1] = "/" /\ s[2] = "/"
    THEN <<"/">> \o DropSlashes(s)
    ELSE s

\* /\/\.(\w)*$/i.test(path)
EndsWithSlashExtension(s) ==
    \E i \in 1..(Len(s) - 1) :
        /\ s[i] = "/"
        /\ s[i + 1] = "."
        /\ \A k \in (i + 2)..Len(s) : IsWord(s[k])

\* path.lastIndexOf("/"), 1-based, 0 when there is none
LastIndexOfSlash(s) ==
    LET S == {i \in 1..Len(s) : s[i] = "/"}
    IN IF S = {} THEN 0 ELSE CHOOSE i \in S : \A j \in S : j <= i

\* the path with the slash before a trailing bare extension removed
RemoveExtensionSlash(s) ==
    IF EndsWithSlashExtension(s)
    THEN LET index == LastIndexOfSlash(s)
         IN SubSeq(s, 1, index - 1) \o From(s, index + 1)
    ELSE s

\* BaseService.joinUriPaths(...paths)
joinUriPaths(paths) ==
    RemoveExtensionSlash(ReplaceLeadingSlashes(ReplaceSlashDotJson(
        joinPaths(paths))))

----------------------------------------------------------------------------
(* The request executor: one client, NumCalls calls of sendRequest/sendFiles *)

CallIds == 1..NumCalls

ContentType == "Content-Type"
ApplicationJson == Str(<<"application/json">>)

\* the constructor's `headers` argument: any of the keys, each with a string,
\* undefined or null (the type says string; the code guards against the others)
HeaderKeys == {"X", ContentType}
HeaderValues(k) ==
    IF k = ContentType THEN {Str(<<"text/plain">>), Undefined}
    ELSE {Str(<<"Y">>), Undefined, Null}
HeaderMaps ==
    UNION {{h \in [K -> UNION {HeaderValues(k) : k \in K}] :
               \A k \in K : h[k] \in HeaderValues(k)} : K \in SUBSET HeaderKeys}

\* config.body of sendRequest: absent, an object, and the falsy values
RequestBodies ==
    {Undefined, Obj([a |-> Num(1)]), Num(0), Bool(FALSE), Str(<<>>)}
\* the files of sendFiles: a File, and a value that is no File
FileMaps == {[file_1 |-> "File", file_2 |-> "not a File"]}
Methods == {"POST"}
\* the constructor's baseUrl and the path of a call, as paths of atoms
BaseUrls == {<<"http", ":", "/", "/", "localhost", ":", "4000">>}
Paths == {<<>>}

\* what the transport may answer: statuses around the edges of [200, 300) and
\* error statuses, with the deserialized data
TransportResponses ==
    {Response(199, "Early", Str(<<"early">>)),
     Response(200, "OK", Obj([body |-> Obj([a |-> Num(1)])])),
     Response(299, "Custom", Str(<<"plain">>)),
     Response(300, "Multiple Choices", Str(<<"<html>">>)),
     Response(401, "Unauthorized", Obj([message |-> Str(<<"X">>)]))}

NoValue == [t |-> "novalue", v |-> <<>>]
\* the exception Axios rejects with on a network failure, or any exception
\* other than an ApiError
RawException == [t |-> "exception", v |-> <<>>]
NoConfig == [t |-> "noconfig", v |-> <<>>]

IdleCall ==
    [pc |-> "idle",          \* idle, awaiting (the transport), returned, threw
     kind |-> "none",        \* sendRequest or sendFiles
     path |-> <<>>,          \* the path argument
     body |-> Undefined,     \* config.body (sendRequest)
     built |-> <<>>,         \* the result of buildHeaders()
     logged |-> {},          \* the keys buildHeaders passed to inspect
     fileLogs |-> {},        \* the keys of the files sendFiles passed to inspect
     config |-> NoConfig,    \* the AxiosRequestConfig given to Axios.request
     dispatches |-> 0,       \* the calls of Axios.request
     settled |-> "pending",  \* pending, responded, rejected: what the transport did
     response |-> Undefined, \* result
     parserCalls |-> <<>>,   \* the (body, response) pairs parseErrorResponse got
     returned |-> NoValue,   \* the value the call resolved with
     thrown |-> NoValue]     \* the value the call rejected with

\* buildHeaders without its filter
BuildHeaders_KeepAll(h) == h

\* BaseService.buildHeaders(): the entries of this.headers but the undefined ones
BuildHeaders(h) ==
    [k \in {x \in DOMAIN h : ~(h[x] = Undefined \/ h[x] = Undefined)} |-> h[k]]

\* the keys buildHeaders reports to inspect
BuildHeadersLogs(h) ==
    {k \in DOMAIN h : h[k] = Undefined \/ h[k] = Undefined}

\* headers[k] = v
SetHeader(h, k, v) ==
    [x \in DOMAIN h \cup {k} |-> IF x = k THEN v ELSE h[x]]

\* the headers sendRequest hands to completeRequest
RequestHeaders(built, body) ==
    IF Truthy(body) THEN SetHeader(built, ContentType, ApplicationJson) ELSE built

\* this.headers with an aliasing buildHeaders: the Content-Type lands in it
ThisHeadersAfterRequest_Aliased(h, body) == RequestHeaders(h, body)

\* this.headers after sendRequest: headers["Content-Type"] is assigned on the
\* object buildHeaders built from `{ }`, never on this.headers
ThisHeadersAfterRequest(h, body) == h

\* new FormData() with every file appended
FormData(files) == [t |-> "FormData", v |-> files]

\* OverriddenClientTestFixture.parseErrorResponse
OverrideParseOutcome(body, axiosResponse) ==
    [raised |-> FALSE,
     error |-> ApiError(66, "It's treason then.", Str(<<"I AM THE SENATE.">>))]

\* this.parseErrorResponse(body, axiosResponse), dispatched on the instance
ThisParseOutcome(over, body, axiosResponse) ==
    IF over THEN OverrideParseOutcome(body, axiosResponse)
    ELSE ParseOutcome(body, axiosResponse)

\* the call after parseErrorResponse(body, response) and `throw error`
ThrowParsed(call, over, body, response) ==
    LET out == ThisParseOutcome(over, body, response)
    IN [call EXCEPT !.pc = "threw",
                    !.parserCalls = Append(@, <<body, response>>),
                    !.thrown = IF out.raised THEN RawException ELSE out.error]

\* completeRequest from `result = await request` on, the request having
\* settled with `response`: resultBody = result.data, then the isOkay check
Resume(call, over, response) ==
    LET c1 == [call EXCEPT !.settled = "responded", !.response = response]
    IN IF ~isOkay(response)
       THEN ThrowParsed(c1, over, response.v.data, response)
       ELSE [c1 EXCEPT !.pc = "returned", !.returned = response.v.data]

\* a catch block that rethrows what it caught
Catch_Rethrow(call, over) ==
    [call EXCEPT !.pc = "threw", !.settled = "rejected", !.thrown = RawException]

\* a catch block that parses the error and falls through to the status check
Catch_FallThrough(call, over) ==
    ThrowParsed(ThrowParsed([call EXCEPT !.settled = "rejected"],
                            over, Undefined, Undefined),
                over, Undefined, Undefined)

\* completeRequest's catch block, the request having been rejected: result
\* and resultBody are still unassigned
Catch(call, over) ==
    ThrowParsed([call EXCEPT !.settled = "rejected"], over, Undefined, Undefined)

InitExecutor ==
    /\ baseUrl \in BaseUrls
    /\ headers \in HeaderMaps
    /\ overridden \in BOOLEAN
    /\ calls = [c \in CallIds |-> IdleCall]
    /\ pBody = Undefined
    /\ pResponse = Undefined
    /\ pResult = NotCalled
    /\ pStringResult = NotCalled
    /\ JoinIdle

\* calls start in the order of their ids
MayStart(c) ==
    /\ calls[c].pc = "idle"
    /\ \A d \in CallIds : d < c => calls[d].pc # "idle"

\* sendRequest(path, method, config) up to the await in completeRequest
SendRequest(c, path, method, body) ==
    /\ MayStart(c)
    /\ headers' = ThisHeadersAfterRequest(headers, body)
    /\ calls' = [calls EXCEPT ![c] =
          [@ EXCEPT !.pc = "awaiting",
                    !.kind = "sendRequest",
                    !.path = path,
                    !.body = body,
                    !.built = BuildHeaders(headers),
                    !.logged = BuildHeadersLogs(headers),
                    !.config = [url |-> joinUriPaths(<<baseUrl, path>>),
                                method |-> method,
                                headers |-> RequestHeaders(BuildHeaders(headers), body),
                                data |-> body],
                    !.dispatches = @ + 1]]
    /\ UNCHANGED <<baseUrl, overridden, pBody, pResponse, pResult, pStringResult,
                 jPaths, jResult, jAgain>>

\* sendFiles(path, method, files, config) up to the await in completeRequest
SendFiles(c, path, method, files) ==
    /\ MayStart(c)
    /\ calls' = [calls EXCEPT ![c] =
          [@ EXCEPT !.pc = "awaiting",
                    !.kind = "sendFiles",
                    !.path = path,
                    !.built = BuildHeaders(headers),
                    !.logged = BuildHeadersLogs(headers),
                    !.fileLogs = {k \in DOMAIN files : files[k] # "File"},
                    !.config = [url |-> joinUriPaths(<<baseUrl, path>>),
                                method |-> method,
                                headers |-> BuildHeaders(headers),
                                data |-> FormData(files)],
                    !.dispatches = @ + 1]]
    /\ UNCHANGED <<baseUrl, headers, overridden, pBody, pResponse, pResult, pStringResult,
                 jPaths, jResult, jAgain>>

\* the transport answers (validateStatus accepts every status): the call resumes
TransportRespond(c, response) ==
    /\ calls[c].pc = "awaiting"
    /\ calls' = [calls EXCEPT ![c] = Resume(@, overridden, response)]
    /\ UNCHANGED <<baseUrl, headers, overridden, pBody, pResponse, pResult, pStringResult,
                 jPaths, jResult, jAgain>>

\* the transport fails (no response): the call resumes in the catch block
TransportReject(c) ==
    /\ calls[c].pc = "awaiting"
    /\ calls' = [calls EXCEPT ![c] = Catch(@, overridden)]
    /\ UNCHANGED <<baseUrl, headers, overridden, pBody, pResponse, pResult, pStringResult,
                 jPaths, jResult, jAgain>>

Next ==
    \/ \E c \in CallIds, p \in Paths, m \in Methods, b \in RequestBodies :
           SendRequest(c, p, m, b)
    \/ \E c \in CallIds, p \in Paths, m \in Methods, f \in FileMaps :
           SendFiles(c, p, m, f)
    \/ \E c \in CallIds, r \in TransportResponses : TransportRespond(c, r)
    \/ \E c \in CallIds : TransportReject(c)

Spec == InitExecutor /\ [][Next]_vars

----------------------------------------------------------------------------
(* joinUriPaths as a function: bounded arguments *)

\* the atoms of the bounded segments
JoinAtoms == {"/", ".", ":", "?", "a", "json", "JSON"}
Segments == SeqsUpTo(JoinAtoms, MaxSegmentLen)
\* a third segment: empty, or a lone slash
LastSegments == {<<>>, <<"/">>}

\* "/api/v1/webhooks"
ApiV1Webhooks == <<"/", "api", "/", "v1", "/", "webhooks">>

\* the argument lists of test JoinsPaths, in its order
TestPaths ==
    <<  <<<<"https", ":", "/", "/", "example", ".", "com">>, ApiV1Webhooks>>,
        <<ApiV1Webhooks>>,
        <<<<"/", "api", "/", "v1", "/">>, <<"test">>>>,
        <<ApiV1Webhooks, <<"5", ".", "json">>>>,
        <<ApiV1Webhooks, <<".", "json">>>>,
        <<ApiV1Webhooks, <<".", "png">>>>,
        <<<<>>, ApiV1Webhooks>>,
        <<<<>>, <<>>, ApiV1Webhooks>>,
        <<<<"/", "/", "/">>, ApiV1Webhooks>>,
        <<<<"/">>, <<"/">>, ApiV1Webhooks>>  >>

\* the bounded argument lists: two segments, two segments and a last one,
\* and the lists of test JoinsPaths
JoinArguments(paths) ==
    \/ \E a \in Segments, b \in Segments : paths = <<a, b>>
    \/ \E a \in Segments, b \in Segments, c \in LastSegments : paths = <<a, b, c>>
    \/ \E i \in DOMAIN TestPaths : paths = TestPaths[i]

InitJoin ==
    /\ ExecutorIdle
    /\ pBody = Undefined
    /\ pResponse = Undefined
    /\ pResult = NotCalled
    /\ pStringResult = NotCalled
    /\ JoinArguments(jPaths)
    /\ jResult = NotCalled
    /\ jAgain = NotCalled

\* joinUriPaths(...paths), as test JoinsPaths calls it
CallJoin ==
    /\ jResult = NotCalled
    /\ jResult' = Str(joinUriPaths(jPaths))
    /\ UNCHANGED <<baseUrl, headers, overridden, calls, pBody, pResponse, pResult,
                   pStringResult, jPaths, jAgain>>

\* joinUriPaths(result): the function applied to its own result
CallJoinAgain ==
    /\ jResult # NotCalled
    /\ jAgain = NotCalled
    /\ jAgain' = Str(joinUriPaths(<<jResult.v>>))
    /\ UNCHANGED <<baseUrl, headers, overridden, calls, pBody, pResponse, pResult,
                   pStringResult, jPaths, jResult>>

NextJoin == CallJoin \/ CallJoinAgain

SpecJoin == InitJoin /\ [][NextJoin]_vars

----------------------------------------------------------------------------
(* Claims about parseErrorResponse, checked under SpecParse *)

\* the outcomes of the calls made so far
ParseResults == {pResult, pStringResult} \ {NotCalled}

\* the ApiError of new ApiError(status, status_text) left untouched
UntouchedError(status, status_text) ==
    [status |-> status, status_text |-> status_text, message |-> DefaultMessage,
     unauthorized |-> (status = 401), details |-> Undefined]

\* C3: the default parseErrorResponse takes the status from the transport
\* response alone: with a response, status = response.status and status_text =
\* response.statusText whatever the body; with no response it returns
\* ApiError(503, "Service Unavailable") with the default message and no
\* details, whatever the body.
C3_StatusFromResponseAlone ==
    \A r \in ParseResults :
        IF pResponse # Undefined
        THEN /\ r.error.status = pResponse.v.status
             /\ r.error.status_text = pResponse.v.statusText
        ELSE r.error = UntouchedError(503, "Service Unavailable")

\* a truthy structured body arrives with a readable response, and one without any
C3_Witness ==
    /\ pResult # NotCalled
    /\ pStringResult # NotCalled
    /\ pResponse = Undefined
    /\ pBody = MkObj(Str(<<"X">>), Undefined, Undefined)

RECURSIVE CommaJoined(_)
\* the strings of a sequence with ", " between them
CommaJoined(strs) ==
    IF strs = <<>> THEN <<>>
    ELSE IF Len(strs) = 1 THEN strs[1]
    ELSE strs[1] \o <<", ">> \o CommaJoined(Tail(strs))

\* a `details` field that is a sequence of {key, errors: sequence<string>} entries
HasDetailsSequence(o) ==
    /\ o.t = "object"
    /\ "details" \in DOMAIN o.v
    /\ o.v.details.t = "array"
    /\ \A i \in 1..Len(o.v.details.v) : o.v.details.v[i] \in WellFormedEntries

ExpectedDetailsMessage(o) ==
    Str(CommaJoined([i \in 1..Len(o.v.details.v) |->
            CommaJoined([j \in 1..Len(o.v.details.v[i].v.errors.v) |->
                            o.v.details.v[i].v.errors.v[j].v])]))

ExampleDetails == Arr(<<Obj([key |-> Str(<<"f">>), errors |-> Arr(<<Str(<<"bad">>)>>)])>>)

\* C4: with a response available and a body whose `details` is a sequence of
\* {key, errors} entries, the message is each entry's errors joined with ", "
\* and the entries' results joined with ", " (a `message` field in the body
\* notwithstanding), and details is the original sequence; the body
\* {message: "X", details: [{key: "f", errors: ["bad"]}]} with status 422
\* gives status 422, message "bad" and those details.
C4_DetailsMessage ==
    \A r \in ParseResults :
        /\ (pResponse # Undefined /\ HasDetailsSequence(pBody))
              => /\ r.error.message = ExpectedDetailsMessage(pBody)
                 /\ r.error.details = pBody.v.details
        /\ (/\ pResponse = Response(422, "Bad Data", Undefined)
            /\ pBody = MkObj(Str(<<"X">>), ExampleDetails, Undefined))
              => /\ r.error.status = 422
                 /\ r.error.message = Str(<<"bad">>)
                 /\ r.error.details = ExampleDetails

\* two entries, the first with two errors, beside a `message` field
C4_Witness ==
    /\ pResult # NotCalled
    /\ pStringResult # NotCalled
    /\ pResponse # Undefined
    /\ "message" \in DOMAIN pBody.v
    /\ pResult.error.message = Str(<<"bad", ", ", "worse", ", ", "bad">>)

\* C5 as stated: parseErrorResponse(JSON.stringify(o), r) and
\* parseErrorResponse(o, r) agree on status, message and details, and when o has
\* a `message` field and no `details` sequence (its details is no array) the
\* message is o.message, the status r.status and details stays absent (null
\* counted as absent).
C5_StringAndObjectAgree_Original ==
    (pResult # NotCalled /\ pStringResult # NotCalled /\ pResponse # Undefined)
        => /\ pResult.error.status = pStringResult.error.status
           /\ pResult.error.message = pStringResult.error.message
           /\ pResult.error.details = pStringResult.error.details
           /\ ("message" \in DOMAIN pBody.v /\ ~IsArray(GetProp(pBody, "details")))
                 => \A r \in ParseResults :
                        /\ r.error.message = pBody.v.message
                        /\ r.error.status = pResponse.v.status
                        /\ r.error.details \in {Undefined, Null}

\* C5 amended: the two calls agree on status, message and details, and when o
\* has a `message` field and no `details` field at all the message is
\* o.message, the status r.status and details stays absent.
C5_StringAndObjectAgree ==
    (pResult # NotCalled /\ pStringResult # NotCalled /\ pResponse # Undefined)
        => /\ pResult.error.status = pStringResult.error.status
           /\ pResult.error.message = pStringResult.error.message
           /\ pResult.error.details = pStringResult.error.details
           /\ ("message" \in DOMAIN pBody.v /\ "details" \notin DOMAIN pBody.v)
                 => \A r \in ParseResults :
                        /\ r.error.message = pBody.v.message
                        /\ r.error.status = pResponse.v.status
                        /\ r.error.details = Undefined

C5_Witness ==
    /\ pResult # NotCalled
    /\ pStringResult # NotCalled
    /\ pResponse = Response(422, "Bad Data", Undefined)
    /\ pBody = MkObj(Str(<<"X">>), Undefined, Str(<<"x">>))
    /\ pStringResult.error.message = Str(<<"X">>)

\* the body is absent or empty, is text that JSON.parse rejects or reads as
\* null, or holds a details sequence with an entry that is null or whose
\* `errors` is no sequence
Unreadable(b) ==
    \/ b \in {Undefined, Null, Str(<<>>)}
    \/ b.t = "string" /\ ~JSONParse(b.v).ok
    \/ b.t = "string" /\ JSONParse(b.v).val = Null
    \/ /\ b.t = "object"
       /\ "details" \in DOMAIN b.v
       /\ b.v.details.t = "array"
       /\ \E i \in 1..Len(b.v.details.v) :
              \/ b.v.details.v[i] = Null
              \/ "errors" \notin DOMAIN b.v.details.v[i].v
              \/ b.v.details.v[i].v.errors.t # "array"

\* C6: parseErrorResponse never throws and always returns an ApiError, for
\* every body and every response or absent response; with a response
\* available and a body that is absent or cannot be read, the ApiError carries
\* the response's status and statusText, the default message and no details.
C6_NeverThrows ==
    \A r \in ParseResults :
        /\ ~r.raised
        /\ DOMAIN r.error = {"status", "status_text", "message", "unauthorized", "details"}
        /\ (pResponse # Undefined /\ Unreadable(pBody))
              => r.error = UntouchedError(pResponse.v.status, pResponse.v.statusText)

\* an entry of the details lacks `errors`, in the object and in its JSON text
C6_Witness ==
    /\ pResult # NotCalled
    /\ pStringResult # NotCalled
    /\ pResponse # Undefined
    /\ pBody = MkObj(Str(<<"X">>), Arr(<<Obj([key |-> Str(<<"f">>)])>>), Undefined)

\* C7 as stated: the message of a returned ApiError is never absent, and with
\* a response available and a body that parses but has neither a `message`
\* field nor a `details` sequence it is the default message.
C7_DefaultMessageFallback ==
    \A r \in ParseResults :
        /\ r.error.message # Undefined
        /\ (/\ pResponse # Undefined
            /\ pBody.t = "object"
            /\ "message" \notin DOMAIN pBody.v
            /\ "details" \notin DOMAIN pBody.v)
              => r.error.message = DefaultMessage

----------------------------------------------------------------------------
(* Claims about the request executor, checked under Spec *)

Started == {c \in CallIds : calls[c].pc # "idle"}
Finished == {c \in CallIds : calls[c].pc \in {"returned", "threw"}}

IsApiErrorValue(e) ==
    DOMAIN e = {"status", "status_text", "message", "unauthorized", "details"}

\* C1: a sendRequest/sendFiles call returns if and only if the transport gave
\* a response with 200 <= status < 300, and then returns exactly the
\* response's deserialized body; for every other status and for a transport
\* failure it fails with an ApiError and returns no body.
C1_SuccessIffOkay ==
    \A c \in Finished :
        /\ calls[c].pc = "returned"
              <=> /\ calls[c].settled = "responded"
                  /\ calls[c].response.v.status >= 200
                  /\ calls[c].response.v.status < 300
        /\ calls[c].pc = "returned"
              => /\ calls[c].returned = calls[c].response.v.data
                 /\ calls[c].thrown = NoValue
        /\ calls[c].pc = "threw"
              => /\ IsApiErrorValue(calls[c].thrown)
                 /\ calls[c].returned = NoValue

\* one call returned the body of a 299, another failed on a 300
C1_Witness ==
    \E c, d \in Finished :
        /\ calls[c].pc = "returned"
        /\ calls[c].response.v.status = 299
        /\ calls[c].returned = Str(<<"plain">>)
        /\ calls[d].pc = "threw"
        /\ calls[d].response # Undefined
        /\ calls[d].response.v.status = 300

\* C2: every failure of sendRequest/sendFiles is exactly the value the
\* client's parseErrorResponse returns (the subclass's override when there is
\* one, the default otherwise), called with the response's body and the
\* response, or with neither after a transport failure; the transport's own
\* exception never reaches the caller.
C2_FailuresAreParsedErrors ==
    \A c \in Finished :
        calls[c].pc = "threw"
            => LET body == IF calls[c].settled = "rejected" THEN Undefined
                           ELSE calls[c].response.v.data
                   resp == IF calls[c].settled = "rejected" THEN Undefined
                           ELSE calls[c].response
               IN /\ calls[c].parserCalls = <<<<body, resp>>>>
                  /\ calls[c].thrown # RawException
                  /\ calls[c].thrown =
                        IF overridden
                        THEN [status |-> 66, status_text |-> "It's treason then.",
                              message |-> Str(<<"I AM THE SENATE.">>),
                              unauthorized |-> FALSE, details |-> Undefined]
                        ELSE ParseOutcome(body, resp).error

\* a subclass's call failed on a rejected request, with the subclass's error
C2_Witness ==
    \E c \in Finished :
        /\ overridden
        /\ calls[c].settled = "rejected"
        /\ calls[c].thrown.status = 66

\* C8 as stated: the dispatched headers hold no undefined value, and every
\* default header whose value is defined is dispatched with its key and value
\* unchanged.
C8_HeadersFiltered_Original ==
    \A c \in Started :
        /\ \A k \in DOMAIN calls[c].config.headers :
               calls[c].config.headers[k] # Undefined
        /\ \A k \in DOMAIN headers :
               headers[k] # Undefined
                  => /\ k \in DOMAIN calls[c].config.headers
                     /\ calls[c].config.headers[k] = headers[k]

\* the Content-Type entry of a sendRequest call with a truthy body
ContentTypeReplaced(c, k) ==
    /\ k = ContentType
    /\ calls[c].kind = "sendRequest"
    /\ Truthy(calls[c].body)

\* C8 amended: the dispatched headers hold no undefined value, and every
\* default header whose value is defined is dispatched with its key and value
\* unchanged, except a default Content-Type in a sendRequest call that has a
\* (truthy) body, which is dispatched as application/json.
C8_HeadersFiltered ==
    \A c \in Started :
        /\ \A k \in DOMAIN calls[c].config.headers :
               calls[c].config.headers[k] # Undefined
        /\ \A k \in DOMAIN headers :
               headers[k] # Undefined
                  => /\ k \in DOMAIN calls[c].config.headers
                     /\ calls[c].config.headers[k] =
                           IF ContentTypeReplaced(c, k) THEN ApplicationJson
                           ELSE headers[k]

\* X = "Y" beside an undefined Content-Type: X is dispatched, Content-Type is not
C8_Witness ==
    \E c \in Started :
        /\ headers = [k \in HeaderKeys |->
                         IF k = "X" THEN Str(<<"Y">>) ELSE Undefined]
        /\ calls[c].kind = "sendFiles"
        /\ calls[c].config.headers = [k \in {"X"} |-> Str(<<"Y">>)]

\* C9 as stated: buildHeaders treats a null header value like an undefined
\* one: the entry is left out of the resulting and of the dispatched header
\* map, and a diagnostic naming the key is emitted.
C9_NullHeadersDropped ==
    \A c \in Started :
        \A k \in DOMAIN headers :
            headers[k] = Null
               => /\ k \notin DOMAIN calls[c].built
                  /\ k \notin DOMAIN calls[c].config.headers
                  /\ k \in calls[c].logged

\* C10 as stated: sendRequest dispatches Content-Type: application/json
\* (over any default Content-Type) whenever config.body is present, whatever
\* its value, and exactly the filtered default headers when it is absent.
C10_ContentTypeWhenBodyPresent ==
    \A c \in Started :
        calls[c].kind = "sendRequest"
            => calls[c].config.headers =
                  IF calls[c].body # Undefined
                  THEN SetHeader(calls[c].built, ContentType, ApplicationJson)
                  ELSE calls[c].built

\* C11: for every default header map, one holding a Content-Type included,
\* the headers a sendFiles call dispatches contain no Content-Type entry (the
\* browser is left to set the multipart type with its boundary)
C11_SendFilesNoContentType ==
    \A c \in Started :
        calls[c].kind = "sendFiles"
            => ContentType \notin DOMAIN calls[c].config.headers

----------------------------------------------------------------------------
(* Claims about joinUriPaths, checked under SpecJoin *)

\* the results test JoinsPaths expects, in its order
TestExpected ==
    <<  <<"https", ":", "/", "/", "example", ".", "com">> \o ApiV1Webhooks,
        ApiV1Webhooks,
        <<"/", "api", "/", "v1", "/", "test">>,
        ApiV1Webhooks \o <<"/", "5", ".", "json">>,
        ApiV1Webhooks \o <<".", "json">>,
        ApiV1Webhooks \o <<".", "png">>,
        ApiV1Webhooks, ApiV1Webhooks, ApiV1Webhooks, ApiV1Webhooks  >>

\* joinUriPaths has been called
Joined == jResult # NotCalled

\* the model gives the results test JoinsPaths expects
JoinsPaths ==
    \A i \in DOMAIN TestPaths :
        (Joined /\ jPaths = TestPaths[i]) => jResult.v = TestExpected[i]

NonEmptySegment(p) == p # <<>>
WordSegment(p) == p # <<>> /\ \A i \in 1..Len(p) : IsWord(p[i])

\* C12 as stated: the result is the non-empty segments concatenated with
\* exactly one "/" between them; an empty segment, leading, middle or
\* trailing, contributes nothing, so it adds no slash: joining "" (once or
\* twice) with "/api/v1/webhooks" gives "/api/v1/webhooks", and "/api/v1/"
\* with "test" gives "/api/v1/test".
C12_EmptySegmentsContributeNothing ==
    Joined =>
        /\ jResult.v = joinUriPaths(SelectSeq(jPaths, NonEmptySegment))
        /\ (\A i \in 1..Len(jPaths) : WordSegment(jPaths[i]))
               => jResult.v = ArrayJoinSlash(jPaths)
        /\ \A i \in {3, 7, 8} : jPaths = TestPaths[i] => jResult.v = TestExpected[i]

StartsWithSlashes(s) == Len(s) >= 2 /\ s[1] = "/" /\ s[2] = "/"

\* C13: for every list of segments the result of joinUriPaths does not begin
\* with two or more slashes: a leading run of slashes is one slash, so
\* ("///", "/api/v1/webhooks") and ("/", "/", "/api/v1/webhooks") both give
\* "/api/v1/webhooks".
C13_NoLeadingSlashRun ==
    Joined =>
        /\ ~StartsWithSlashes(jResult.v)
        /\ \A i \in {9, 10} : jPaths = TestPaths[i] => jResult.v = TestExpected[i]

\* a leading run of slashes came out of url-join and the result has one slash
C13_Witness ==
    /\ Joined
    /\ jPaths = TestPaths[9]
    /\ StartsWithSlashes(joinPaths(jPaths))
    /\ jResult.v = ApiV1Webhooks

\* C14 as stated: the "/.json" replacement is applied to the path obtained
\* after joining the segments and collapsing the leading slashes, every
\* occurrence in any letter case becoming ".json": ("/api/v1/webhooks",
\* ".json") gives "/api/v1/webhooks.json" and "5.json" keeps its slash.
C14_JsonAfterLeadingSlashes ==
    Joined =>
        /\ jResult.v = RemoveExtensionSlash(ReplaceSlashDotJson(
                           ReplaceLeadingSlashes(joinPaths(jPaths))))
        /\ \A i \in {4, 5} : jPaths = TestPaths[i] => jResult.v = TestExpected[i]

\* C15 as stated: for every list of segments the result does not end with a
\* "/" followed by a bare extension token ("." and zero or more word
\* characters): ("/api/v1/webhooks", ".png") gives "/api/v1/webhooks.png".
C15_NoTrailingSlashExtension ==
    Joined =>
        /\ ~EndsWithSlashExtension(jResult.v)
        /\ jPaths = TestPaths[6] => jResult.v = TestExpected[6]

\* C16 as stated: joinUriPaths is idempotent: applied to its own result it
\* returns that result unchanged, whatever the segments.
C16_Idempotent ==
    jAgain # NotCalled => jAgain = jResult

----------------------------------------------------------------------------
(* Further claims about the request executor, checked under Spec *)

Threw == {c \in Finished : calls[c].pc = "threw"}
Returned == {c \in Finished : calls[c].pc = "returned"}

\* C17: every ApiError handed to a caller of sendRequest/sendFiles, built by
\* the default parseErrorResponse or by an override, has unauthorized = true
\* if and only if its status is 401; the flag is fixed at construction from
\* the status, and the constructor keeps the status, status text and message
\* it was given.
C17_UnauthorizedIff401 ==
    \A c \in Threw :
        /\ IsApiErrorValue(calls[c].thrown)
        /\ calls[c].thrown.unauthorized = (calls[c].thrown.status = 401)
        /\ overridden
              => /\ calls[c].thrown.status = 66
                 /\ calls[c].thrown.status_text = "It's treason then."
                 /\ calls[c].thrown.message = Str(<<"I AM THE SENATE.">>)
        /\ (~overridden /\ calls[c].settled = "responded")
              => calls[c].thrown.status = calls[c].response.v.status

\* one call failed with a 401 and its error is flagged, another failed with
\* another status and is not
C17_Witness ==
    \E c, d \in Threw :
        /\ calls[c].thrown.status = 401
        /\ calls[c].thrown.unauthorized
        /\ calls[d].thrown.status = 300
        /\ ~calls[d].thrown.unauthorized

\* the shape of one call's record at each of its positions
OneOutcome(call) ==
    /\ call.pc = "idle"
          => call.dispatches = 0 /\ call.settled = "pending"
    /\ call.pc # "idle" => call.dispatches = 1
    /\ call.pc = "awaiting"
          => /\ call.settled = "pending"
             /\ call.parserCalls = <<>>
             /\ call.returned = NoValue
             /\ call.thrown = NoValue
    /\ call.settled # "pending" => call.pc \in {"returned", "threw"}
    /\ call.pc = "returned"
          => /\ call.settled = "responded"
             /\ call.parserCalls = <<>>
             /\ call.returned # NoValue
             /\ call.thrown = NoValue
    /\ call.pc = "threw"
          => /\ Len(call.parserCalls) = 1
             /\ call.returned = NoValue
             /\ call.thrown # NoValue

\* a finished call takes no further step
FinishedStays ==
    \A c \in CallIds :
        calls[c].pc \in {"returned", "threw"} => calls'[c] = calls[c]

\* C18: every sendRequest/sendFiles call dispatches to the transport exactly
\* once (no retry) and, once the transport has settled, has exactly one
\* terminal outcome, a returned body or a thrown error, never both and never
\* changed afterwards; parseErrorResponse is called exactly once on a failing
\* call (also after a transport failure) and never on a successful one.
C18_OneDispatchOneOutcome ==
    /\ [](\A c \in CallIds : OneOutcome(calls[c]))
    /\ [][FinishedStays]_vars

\* one call returned, another threw after a transport failure, each after
\* one dispatch
C18_Witness ==
    \E c \in Returned, d \in Threw :
        /\ calls[c].dispatches = 1
        /\ calls[c].parserCalls = <<>>
        /\ calls[d].settled = "rejected"
        /\ calls[d].dispatches = 1
        /\ Len(calls[d].parserCalls) = 1

\* what one call holds, from the client's constructor arguments, the call's
\* own arguments and its own transport response alone
\* joinUriPaths(baseUrl, path), tabulated over the bounded arguments
Urls == [b \in BaseUrls |-> [p \in Paths |-> joinUriPaths(<<b, p>>)]]

OwnStateOnly(call) ==
    /\ call.config.url = Urls[baseUrl][call.path]
    /\ call.built = BuildHeaders(headers)
    /\ call.config.headers =
          IF call.kind = "sendRequest"
          THEN RequestHeaders(BuildHeaders(headers), call.body)
          ELSE BuildHeaders(headers)
    /\ (/\ ContentType \in DOMAIN call.config.headers
        /\ call.config.headers[ContentType] = ApplicationJson)
          => call.kind = "sendRequest" /\ Truthy(call.body)
    /\ call.pc = "returned"
          => /\ isOkay(call.response)
             /\ call.returned = call.response.v.data
    /\ call.pc = "threw"
          => /\ call.settled = "responded" => ~isOkay(call.response)
             /\ call.parserCalls =
                   IF call.settled = "responded"
                   THEN <<<<call.response.v.data, call.response>>>>
                   ELSE <<<<Undefined, Undefined>>>>
             /\ call.thrown.status =
                   IF overridden THEN 66
                   ELSE IF call.settled = "responded"
                        THEN call.response.v.status
                        ELSE 503

\* a step leaves the client's fields alone and changes one call at most
ClientUntouched ==
    /\ baseUrl' = baseUrl
    /\ headers' = headers
    /\ \A c, d \in CallIds :
           (c # d /\ calls'[c] # calls[c]) => calls'[d] = calls[d]

\* C19: concurrent calls on one client share no mutable state: each call
\* builds its own header map from the defaults, so the Content-Type added for
\* a call with a body never shows in the headers another call dispatches;
\* each call's outcome depends only on its own arguments and its own
\* transport response; the client's baseUrl and default header map are
\* unchanged by every call.
C19_CallsShareNothing ==
    /\ [](\A c \in Started : OwnStateOnly(calls[c]))
    /\ [][ClientUntouched]_vars

\* a call with a body dispatched Content-Type: application/json and is still
\* awaiting; a call started after it dispatched the defaults without it and
\* has finished first
C19_Witness ==
    /\ calls[1].pc = "awaiting"
    /\ calls[1].kind = "sendRequest"
    /\ Truthy(calls[1].body)
    /\ calls[1].config.headers[ContentType] = ApplicationJson
    /\ calls[2].pc = "returned"
    /\ ContentType \notin DOMAIN calls[2].config.headers
    /\ DOMAIN headers = {"X"}

====
